---- MODULE Spec2Model ----
(***************************************************************************)
(* A model of monet's calibration store (io.py) and of its power-control   *)
(* engine (control.py), with the part of the sinusoidal attenuation model  *)
(* (analysis.py) the engine needs.                                         *)
(*                                                                         *)
(* Representation.                                                         *)
(*  - The store file is the sequence of its rows in file order; a missing  *)
(*    file is the empty sequence (every file save_calibration writes holds *)
(*    at least one row).                                                   *)
(*  - A date 'YYYY-MM-DD' is a day number and a time 'HH:MM' a minute of   *)
(*    the day: both formats are zero padded, so the order of the strings   *)
(*    is the order of the numbers.  The clock counts minutes; what         *)
(*    strftime drops (the seconds) is not in the clock.                    *)
(*  - Angles are counted in units of 22.5 degrees, where the sine of the   *)
(*    model function is 0, 1, 0 or -1.                                     *)
(*  - A Python exception is the field err of the result; the assignments   *)
(*    made before the raise are kept.                                      *)
(***************************************************************************)
EXTENDS Integers, Sequences, FiniteSets, TLC

VARIABLES
    store,            \* the database file: its rows in file order
    now,              \* the clock, in minutes since day 0, 00:00
    last_save,        \* what the last save_calibration was given and returned
    last_load,        \* what the last load_database / load_calibration was given and returned
    cls,              \* the class of the instrument
    anaconfig,        \* config['analysis']['classpath']: the class of its analyzers
    is_calibrated,    \* IlluminationControl.is_calibrated
    analyzer,         \* self.analyzer: its curr_params
    curr_laser,       \* self.curr_laser
    curr_laserpower,  \* self.curr_laserpower
    index,            \* self.config['index']
    lasers,           \* self.lasers: each laser's enabled flag and power
    cali_db,          \* self.cali_db
    analyzers,        \* self._analyzers
    power_ranges,     \* self._power_ranges
    attrs,            \* which of cali_db, _analyzers, curr_laserpower exist
    calls,            \* the calls the last operation made to the lasers, the analyzer and the attenuator
    result,           \* the last operation: its name, its argument and the exception it raised
    writers,          \* the processes that are inside save_calibration: where each is and what it holds
    run,              \* the calibration protocol: its configuration and where run_protocol is
    curve,            \* a curve-model object on its own: its attributes and its last call
    saving            \* one call of save_calibration inside its retry loop: where it is and what it holds

vars == <<store, now, last_save, last_load, cls, anaconfig, is_calibrated, analyzer,
          curr_laser, curr_laserpower, index, lasers, cali_db, analyzers,
          power_ranges, attrs, calls, result, writers, run, curve, saving>>

\* what the operations of the instrument and of the store on their own leave alone
auxVars == <<writers, run, curve, saving>>

storeVars == <<store, now, last_save, last_load>>

engineVars == <<cls, anaconfig, is_calibrated, analyzer, curr_laser, curr_laserpower,
                index, lasers, cali_db, analyzers, power_ranges, attrs,
                calls, result>>

----------------------------------------------------------------------------
(* Values *)

\* numpy.nan, as a cell of the table and as the minimum of an empty pandas Index
NaN == -999

\* slice(None): the wildcard of an index level
slice_None == -1

\* the names of the model parameters (the columns of the table)
ParNames == {"bkg", "amp", "phi"}

NoErr == "none"

\* no process is inside save_calibration, no protocol and no curve-model
\* object on its own exists
NoWriters == <<>>

NoRun == [pc |-> "none"]

NoCurve == [class |-> "none"]

NoSaving == [pc |-> "none"]

Min(S) == CHOOSE x \in S : \A y \in S : x <= y

Max(S) == CHOOSE x \in S : \A y \in S : x >= y

\* the minutes of a day (a day of the model is this short)
MinutesPerDay == 2

\* the clock stops here
MaxNow == 2

\* the table holds at most this many rows
MaxRows == 2

----------------------------------------------------------------------------
(* io.py: the table *)

\* A device name is modelled by its rank in string order: 1 is 'M1', 2 is 'M2'.
Key(row) == <<row.name, row.wl, row.lp, row.date, row.time>>

\* the non-time levels of the index, the group of 'last combinations'
Combo(row) == <<row.name, row.wl, row.lp>>

\* lexicographic order of two index tuples, as sort_index orders a MultiIndex
RECURSIVE TupleLess(_, _)
TupleLess(a, b) ==
    IF a = <<>> THEN FALSE
    ELSE IF Head(a) # Head(b) THEN Head(a) < Head(b)
    ELSE TupleLess(Tail(a), Tail(b))

\* datetime.now().strftime('%Y-%m-%d') and .strftime('%H:%M') of a clock value
strftime_date(t) == t \div MinutesPerDay

strftime_time(t) == t % MinutesPerDay

\* index_full of load_database: the levels a caller leaves out are slice(None)
index_full(idx) ==
    [k \in {"name", "wl", "lp", "date", "time"} |->
        IF k \in DOMAIN idx THEN idx[k] ELSE slice_None]

\* db.loc[indexvals, :] selects the rows that agree with every level that is no slice
Matches(row, idx) ==
    \A k \in DOMAIN idx : idx[k] = slice_None \/ row[k] = idx[k]

\* the row db.sort_index().iloc[-1, :] returns: the greatest index tuple; of
\* equal tuples the stable sort leaves the later row last
sort_index_last(db) ==
    LET i == CHOOSE i \in DOMAIN db :
                 \A j \in DOMAIN db :
                     \/ TupleLess(Key(db[j]), Key(db[i]))
                     \/ (Key(db[j]) = Key(db[i]) /\ j <= i)
    IN db[i]

\* the 'last combinations' branch: of every group of the non-time levels all
\* rows but the last of the group (in table order) are dropped, by label
last_combinations(db) ==
    LET dropped == {Key(db[i]) : i \in {i \in DOMAIN db :
                        \E j \in DOMAIN db : j > i /\ Combo(db[j]) = Combo(db[i])}}
        Keep(row) == Key(row) \notin dropped
    IN SelectSeq(db, Keep)

\* load_database(fname, index, time_idx): err and the selected rows.
\* time_idx is [sel |-> 'latest' | 'last date' | 'last combinations' | 'all' |
\* 'explicit', date, time]; an explicit [date] has time = slice(None).
load_database(file, idx, time_idx) ==
    LET full == index_full(idx)
        idx2 == IF time_idx.sel = "explicit"
                THEN [full EXCEPT !.date = time_idx.date,
                                  !.time = IF time_idx.time = slice_None
                                           THEN full.time ELSE time_idx.time]
                ELSE full
        Sel(row) == Matches(row, idx2)
        db == SelectSeq(file, Sel)
    IN IF file = <<>> THEN [err |-> "FileNotFoundError", rows |-> <<>>]
       ELSE IF db = <<>> THEN [err |-> "KeyError", rows |-> <<>>]
       ELSE IF time_idx.sel = "latest"
            THEN [err |-> NoErr, rows |-> <<sort_index_last(db)>>]
       ELSE IF time_idx.sel = "last date"
            THEN LET last_date == Max({db[i].date : i \in DOMAIN db})
                     OnLast(row) == row.date = last_date
                 IN [err |-> NoErr, rows |-> SelectSeq(db, OnLast)]
       ELSE IF time_idx.sel = "last combinations"
            THEN [err |-> NoErr, rows |-> last_combinations(db)]
       ELSE [err |-> NoErr, rows |-> db]

\* the dict load_calibration builds of the selected row: the columns that are not NaN
not_nan(pars) ==
    [k \in {k \in DOMAIN pars : pars[k] # NaN} |-> pars[k]]

\* load_calibration(fname, index, time_idx): err and cali_pars
load_calibration(file, idx, time_idx) ==
    LET db_select == load_database(file, idx, time_idx)
    IN IF db_select.err # NoErr
       THEN [err |-> db_select.err, cali_pars |-> <<>>]
       ELSE [err |-> NoErr, cali_pars |-> not_nan(db_select.rows[1].pars)]

\* a save that appends its row without looking for the label in the table
C12_set_row_appends(db, indexvals, cali_pars) ==
    Append(db, [name |-> indexvals[1], wl |-> indexvals[2],
                lp |-> indexvals[3], date |-> indexvals[4],
                time |-> indexvals[5],
                pars |-> [k \in ParNames |->
                            IF k \in DOMAIN cali_pars
                            THEN cali_pars[k] ELSE NaN]])

\* db.loc[indexvals, k] = v for every k of cali_pars: the rows of that label
\* get the given columns (their other columns stay); a label the table does
\* not hold is appended as a new last row
set_row(db, indexvals, cali_pars) ==
    IF \E i \in DOMAIN db : Key(db[i]) = indexvals
    THEN [i \in DOMAIN db |->
            IF Key(db[i]) = indexvals
            THEN [db[i] EXCEPT !.pars =
                    [k \in ParNames |-> IF k \in DOMAIN cali_pars
                                        THEN cali_pars[k] ELSE @[k]]]
            ELSE db[i]]
    ELSE Append(db, [name |-> indexvals[1], wl |-> indexvals[2],
                     lp |-> indexvals[3], date |-> indexvals[4],
                     time |-> indexvals[5],
                     pars |-> [k \in ParNames |->
                                 IF k \in DOMAIN cali_pars
                                 THEN cali_pars[k] ELSE NaN]])

\* save_calibration(fname, index, cali_pars).  t_date and t_time are the two
\* readings of datetime.now(); read_fails says that every pd.read_excel of the
\* retry loop raised until more than 10 s had passed.
save_calibration(file, idx, cali_pars, t_date, t_time, read_fails) ==
    LET indexvals == <<idx.name, idx.wl, idx.lp,
                       strftime_date(t_date), strftime_time(t_time)>>
        db == IF file = <<>> \/ read_fails THEN <<>> ELSE file
    IN [file |-> set_row(db, indexvals, cali_pars), indexvals |-> indexvals]

----------------------------------------------------------------------------
(* The inputs of the store operations *)

\* the (device, wavelength, laser power) indices save_calibration is called with
SaveIndices ==
    {[name |-> 1, wl |-> 488, lp |-> 100], [name |-> 1, wl |-> 561, lp |-> 100],
     [name |-> 2, wl |-> 488, lp |-> 100]}

\* the parameter mappings saved: a fit of the sinusoidal model, one of the point model
CaliPars ==
    {[bkg |-> 0, amp |-> 40, phi |-> 1], [amp |-> 7]}

\* the indices load_database is called with: the saved ones, a device with
\* wavelength and laser power left out, every level left out, one never saved
LoadIndices ==
    SaveIndices
    \cup {[name |-> 1, wl |-> slice_None, lp |-> slice_None],
          [name |-> slice_None, wl |-> slice_None, lp |-> slice_None],
          [name |-> 2, wl |-> 561, lp |-> 100]}

TimeSelectors ==
    {[sel |-> s, date |-> slice_None, time |-> slice_None] :
        s \in {"latest", "last date", "last combinations", "all"}}
    \cup {[sel |-> "explicit", date |-> d, time |-> t] :
            d \in {0}, t \in {0, slice_None}}

NoSave == [idx |-> [name |-> 0, wl |-> 0, lp |-> 0], cali_pars |-> <<>>,
           indexvals |-> <<>>, read_fails |-> FALSE]

NoLoad == [op |-> "none", idx |-> [name |-> 0, wl |-> 0, lp |-> 0],
           time_idx |-> [sel |-> "none", date |-> slice_None, time |-> slice_None],
           err |-> NoErr, rows |-> <<>>, cali_pars |-> <<>>]

----------------------------------------------------------------------------
(* analysis.py: SinusAttenuationCurveAnalyzer, on the grid of 22.5 degrees *)

\* the classes of curve analyzers
Sinus == "SinusAttenuationCurveAnalyzer"

Linear == "LinearCurveAnalyzer"

Point == "PointCurveAnalyzer"

Polynom == "PolynomAttenuationCurveAnalyzer"

\* config['analysis']['init_kwargs']: the bounds of the control parameter
analysis_parameters == [min |-> 0, max |-> 4, step |-> 1]

\* np.sin(4*np.pi/180*a) for an angle a of u*22.5 degrees
sin4(u) == CASE u % 4 = 0 -> 0 [] u % 4 = 1 -> 1 [] u % 4 = 2 -> 0 [] OTHER -> -1

\* _model_function: bkg + amp * (1+sin(4*pi/180*(x+phi)))/2
model_function(x, bkg, amp, phi) == bkg + (amp * (1 + sin4(x + phi))) \div 2

\* estimate_power(x) with the current parameters
estimate_power(pars, x) == model_function(x, pars.bkg, pars.amp, pars.phi)

\* 180/8 = 22.5 degrees, 3/8*180 = 67.5 degrees and the period of 90 degrees
phi_max == 1

phi_min == 3

phi_period == 4

\* SinusAttenuationCurveAnalyzer.output_range() for the bounds [lo, hi]:
\* params is what get_model() returns and gives bkg and amp at an extremum
\* inside the bounds; estimate_power at the two ends evaluates curr_params
Sinus_output_range(params, curr_params, lo, hi) ==
    LET next_maxphi_from_min == (((lo - phi_max) \div phi_period) + 1) * phi_period + phi_max
        next_minphi_from_min == (((lo - phi_min) \div phi_period) + 1) * phi_period + phi_min
        ends == {estimate_power(curr_params, lo), estimate_power(curr_params, hi)}
    IN << IF next_minphi_from_min < hi THEN params.bkg ELSE Min(ends),
          IF next_maxphi_from_min < hi THEN params.bkg + params.amp ELSE Max(ends) >>

\* output_range(): [min power, max power] within the bounds of the control parameter
output_range(pars) ==
    Sinus_output_range(pars, pars, analysis_parameters.min, analysis_parameters.max)

\* np.arcsin((y-bkg)/amp*2 - 1)/4*180/np.pi in units of 22.5 degrees, for
\* y at bkg, at bkg + amp/2 and at bkg + amp
arcsin4(y, bkg, amp) ==
    CASE y = bkg -> -1 [] y = bkg + amp -> 1 [] OTHER -> 0

\* the shifts of the ndarray branch in place of the loop: one up where below
\* mini, then one down where above maxi
C27_fold_once(alpha, mini, maxi, n) ==
    LET up == IF alpha < mini THEN alpha + phi_period ELSE alpha
    IN IF up > maxi THEN up - phi_period ELSE up

\* the loop of _model_function_inv: at most n shifts by a period of 90 degrees
RECURSIVE fold(_, _, _, _)
fold(alpha, mini, maxi, n) ==
    IF n = 0 THEN alpha
    ELSE IF alpha < mini THEN fold(alpha + phi_period, mini, maxi, n - 1)
    ELSE IF alpha > maxi THEN fold(alpha - phi_period, mini, maxi, n - 1)
    ELSE alpha

\* what a method returns or raises
Returns(x) == [err |-> NoErr, out |-> x]

Raises(exc) == [err |-> exc, out |-> <<>>]

\* SinusAttenuationCurveAnalyzer._model_function_inv
Sinus_model_function_inv(y, pars, mini, maxi) ==
    IF y < pars.bkg \/ y > pars.bkg + pars.amp THEN Raises("ValueError")
    ELSE Returns(fold(arcsin4(y, pars.bkg, pars.amp) - pars.phi, mini, maxi, 5))

\* LinearCurveAnalyzer._model_function and _model_function_inv
Linear_model_function(x, pars) == pars.bkg + pars.amp * x

Linear_model_function_inv(y, pars, mini, maxi) ==
    IF y < pars.bkg + pars.amp * mini \/ y > pars.bkg + pars.amp * maxi
    THEN Raises("ValueError")
    ELSE Returns((y - pars.bkg) \div pars.amp)

\* PolynomAttenuationCurveAnalyzer: the polynomial p0 + p1*x and the inverse
\* polynomial i0 + i1*y of params2coef
poly(pars, x) == pars.p0 + pars.p1 * x

polinv(pars, y) == pars.i0 + pars.i1 * y

\* PolynomAttenuationCurveAnalyzer._model_function_inv
Polynom_model_function_inv(y, pars, mini, maxi) ==
    LET x == polinv(pars, y)
    IN Returns(IF x < mini THEN mini ELSE IF x > maxi THEN maxi ELSE x)

\* PolynomAttenuationCurveAnalyzer.output_range: the derivative of a
\* polynomial of degree 1 has no root
Polynom_output_range(pars, lo, hi) ==
    LET end_vals == {poly(pars, lo), poly(pars, hi)}
    IN <<Min(end_vals), Max(end_vals)>>

\* sorted(...) of a pair
sorted(pair) ==
    IF pair[1] <= pair[2] THEN [min |-> pair[1], max |-> pair[2]]
    ELSE [min |-> pair[2], max |-> pair[1]]

\* what estimate(y) raises: _model_function_inv takes bkg, amp and phi, and
\* refuses a y below bkg or above bkg + amp
estimate_err(pars, y) ==
    IF DOMAIN pars # ParNames THEN "TypeError"
    ELSE IF y < pars.bkg \/ y > pars.bkg + pars.amp THEN "ValueError"
    ELSE NoErr

----------------------------------------------------------------------------
(* control.py: the instrument as a record of its attributes *)

\* the lasers of config['lasers']; the first one is the current laser after __init__
Lasers == {488, 561}

first_laser == 488

IC == "IlluminationControl"

ILC == "IlluminationLaserControl"

\* the calls an operation makes to its collaborators
LaserEnabled(l, value) ==
    [op |-> "laser.enabled", laser |-> l, val |-> IF value THEN 1 ELSE 0, model |-> <<>>]

LaserPower(l, p) ==
    [op |-> "laser.power", laser |-> l, val |-> p, model |-> <<>>]

\* analyzer.estimate(y) of the analyzer with parameters pars
Estimate(pars, y) ==
    [op |-> "analyzer.estimate", laser |-> 0, val |-> y, model |-> pars]

\* attenuator.set(ctrlval), ctrlval being what estimate(y) returned
AttenuatorSet(pars, y) ==
    [op |-> "attenuator.set", laser |-> 0, val |-> y, model |-> pars]

Raise(e, exc) == [e EXCEPT !.err = exc]

Call(e, c) == [e EXCEPT !.calls = Append(@, c)]

\* A Python value given as a laser name: an int, or a str that int() converts
\* (n is the number it spells) or does not convert (n is not_a_number).
PyInt(n) == [ty |-> "int", n |-> n]

PyStr(n) == [ty |-> "str", n |-> n]

not_a_number == -2

\* try: laser = int(laser) except: pass
try_int(x) ==
    IF x.ty = "str" /\ x.n # not_a_number THEN PyInt(x.n) ELSE x

\* try: laserpower = int(laserpower) except: pass, of an int or of nan
\* (int(nan) raises, nan is kept)
try_int_power(x) == x

\* IlluminationControl.power (setter)
IlluminationControl_power(e, power) ==
    IF ~e.is_calibrated THEN Raise(e, "ValueError")
    ELSE IF "curr_params" \notin e.attrs THEN Raise(e, "AttributeError")
    ELSE LET e1 == Call(e, Estimate(e.analyzer, power))
             exc == estimate_err(e.analyzer, power)
         IN IF exc # NoErr THEN Raise(e1, exc)
            ELSE Call(e1, AttenuatorSet(e.analyzer, power))

\* IlluminationControl.load_calibration(time_idx='latest')
IlluminationControl_load_calibration(e, file) ==
    LET got == load_calibration(file, e.index,
                   [sel |-> "latest", date |-> slice_None, time |-> slice_None])
    IN IF got.err # NoErr THEN Raise(e, got.err)
       ELSE [e EXCEPT !.analyzer = got.cali_pars,
                      !.attrs = @ \cup {"curr_params"},
                      !.is_calibrated = TRUE]

\* analyzers of the rows of every laser, not of the given one only
C6_populate_every_laser(db, laser) ==
    LET pwrs == {db[i].lp : i \in DOMAIN db}
        first(pwr) == db[Min({i \in DOMAIN db : db[i].lp = pwr})]
    IN [analyzers |-> [pwr \in pwrs |-> first(pwr).pars],
        power_ranges |-> [pwr \in pwrs |-> sorted(output_range(first(pwr).pars))]]

\* _populate_analyzers(db, laser): one analyzer and one sorted output range
\* for every laser power of the rows of that laser
populate_analyzers(db, laser) ==
    LET Of(row) == row.wl = laser
        subdb == SelectSeq(db, Of)
        pwrs == {subdb[i].lp : i \in DOMAIN subdb}
        first(pwr) == subdb[Min({i \in DOMAIN subdb : subdb[i].lp = pwr})]
    IN [analyzers |-> [pwr \in pwrs |-> first(pwr).pars],
        power_ranges |-> [pwr \in pwrs |-> sorted(output_range(first(pwr).pars))]]

\* a laser power setter that leaves config['index'] as it is
C16_laserpower_setter_keeps_index(e, laserpower) ==
    LET lp == try_int_power(laserpower)
        e1 == Call([e EXCEPT !.curr_laserpower = lp,
                             !.attrs = @ \cup {"curr_laserpower"},
                             !.lasers[e.curr_laser].power = lp],
                   LaserPower(e.curr_laser, lp))
    IN IF ~e1.is_calibrated THEN e1
       ELSE IF "_analyzers" \notin e1.attrs THEN Raise(e1, "AttributeError")
       ELSE IF lp \notin DOMAIN e1.analyzers THEN Raise(e1, "KeyError")
       ELSE [e1 EXCEPT !.analyzer = e1.analyzers[lp],
                       !.attrs = @ \cup {"curr_params"}]

\* IlluminationLaserControl.laserpower (setter)
laserpower_setter(e, laserpower) ==
    LET lp == try_int_power(laserpower)
        e1 == Call([e EXCEPT !.curr_laserpower = lp,
                             !.attrs = @ \cup {"curr_laserpower"},
                             !.index.lp = lp,
                             !.lasers[e.curr_laser].power = lp],
                   LaserPower(e.curr_laser, lp))
    IN IF ~e1.is_calibrated THEN e1
       ELSE IF "_analyzers" \notin e1.attrs THEN Raise(e1, "AttributeError")
       ELSE IF lp \notin DOMAIN e1.analyzers THEN Raise(e1, "KeyError")
       ELSE [e1 EXCEPT !.analyzer = e1.analyzers[lp],
                       !.attrs = @ \cup {"curr_params"}]

\* IlluminationLaserControl.laser (setter), the branch of a laser that is
\* one of self.lasers, enable=True
laser_setter_known(e, l) ==
    LET e1 == Call([e EXCEPT !.curr_laser = l,
                             !.index.wl = l,
                             !.lasers[l].enabled = TRUE],
                   LaserEnabled(l, TRUE))
    IN IF ~e1.is_calibrated THEN e1
       ELSE IF "cali_db" \notin e1.attrs THEN Raise(e1, "AttributeError")
       \* LinearCurveAnalyzer.output_range() raises, for the first laser
       \* power of the rows of the laser
       ELSE IF e1.anaconfig = Linear /\ \E i \in DOMAIN e1.cali_db : e1.cali_db[i].wl = l
            THEN Raise(e1, "NotImplementedError")
       ELSE LET got == populate_analyzers(e1.cali_db, l)
                e2 == [e1 EXCEPT !.analyzers = got.analyzers,
                                 !.power_ranges = got.power_ranges,
                                 !.attrs = @ \cup {"_analyzers"}]
                \* the minimum of an empty Index is nan
                lowest == IF DOMAIN got.power_ranges = {} THEN NaN
                          ELSE Min(DOMAIN got.power_ranges)
            IN laserpower_setter(e2, lowest)

\* a laser setter that makes the laser current before it looks it up
C5_laser_setter_assigns_first(e, laser) ==
    LET key == try_int(laser) IN
    IF ~(key.ty = "int" /\ key.n \in Lasers)
    THEN Raise([e EXCEPT !.curr_laser = key.n], "KeyError")
    ELSE laser_setter_known(e, key.n)

\* IlluminationLaserControl.laser (setter)
laser_setter(e, laser) ==
    LET key == try_int(laser) IN
    IF ~(key.ty = "int" /\ key.n \in Lasers) THEN Raise(e, "KeyError")
    ELSE laser_setter_known(e, key.n)

\* a laser_enabled setter that tells the laser but does not switch it
C17_laser_enabled_setter_no_effect(e, value) ==
    Call(e, LaserEnabled(e.curr_laser, value))

\* a laser_enabled setter that switches the laser named last, not the current one
C30_laser_enabled_setter_last(e, value) ==
    Call([e EXCEPT !.lasers[Max(DOMAIN e.lasers)].enabled = value],
         LaserEnabled(e.curr_laser, value))

\* IlluminationLaserControl.laser_enabled (setter)
laser_enabled_setter(e, value) ==
    Call([e EXCEPT !.lasers[e.curr_laser].enabled = value],
         LaserEnabled(e.curr_laser, value))

\* a power setter that looks at the lower end of the range only
C3_power_setter_lower_only(e, pwr) ==
    IF ~e.is_calibrated THEN Raise(e, "ValueError")
    ELSE IF "_analyzers" \notin e.attrs THEN Raise(e, "AttributeError")
    ELSE IF e.curr_laserpower \notin DOMAIN e.power_ranges THEN Raise(e, "KeyError")
    ELSE IF pwr < e.power_ranges[e.curr_laserpower].min
         THEN Raise(e, "AttributeError")
    ELSE IlluminationControl_power(e, pwr)

\* a power setter that does not ask whether the instrument is calibrated
C4_power_setter_unchecked(e, pwr) ==
    IF "_analyzers" \notin e.attrs THEN Raise(e, "AttributeError")
    ELSE IF e.curr_laserpower \notin DOMAIN e.power_ranges THEN Raise(e, "KeyError")
    ELSE IF \/ pwr < e.power_ranges[e.curr_laserpower].min
            \/ pwr > e.power_ranges[e.curr_laserpower].max
         THEN Raise(e, "AttributeError")
    ELSE IlluminationControl_power(e, pwr)

\* a power setter that sets the laser power anew also when the request is
\* within the range of the current laser power
C22_power_setter_sets_laserpower(e, pwr) ==
    IF ~e.is_calibrated THEN Raise(e, "ValueError")
    ELSE IF "_analyzers" \notin e.attrs THEN Raise(e, "AttributeError")
    ELSE IF e.curr_laserpower \notin DOMAIN e.power_ranges THEN Raise(e, "KeyError")
    ELSE IF \/ pwr < e.power_ranges[e.curr_laserpower].min
            \/ pwr > e.power_ranges[e.curr_laserpower].max
         THEN Raise(e, "AttributeError")
    ELSE IlluminationControl_power(laserpower_setter(e, e.curr_laserpower), pwr)

\* a power setter that takes the lowest laser power whose range holds the
\* request, whatever the current laser power is
C29_power_setter_lowest_bucket(e, pwr) ==
    IF ~e.is_calibrated THEN Raise(e, "ValueError")
    ELSE IF "_analyzers" \notin e.attrs THEN Raise(e, "AttributeError")
    ELSE IF e.curr_laserpower \notin DOMAIN e.power_ranges THEN Raise(e, "KeyError")
    ELSE LET holding == {p \in DOMAIN e.power_ranges :
                            /\ pwr >= e.power_ranges[p].min
                            /\ pwr <= e.power_ranges[p].max}
         IN IF holding = {} THEN Raise(e, "AttributeError")
            ELSE IlluminationControl_power(laserpower_setter(e, Min(holding)), pwr)

\* IlluminationLaserControl.power (setter).  Line 317 reads self.power_ranges,
\* an attribute no code sets: whenever the requested power is outside the
\* range of the current laser power, the statement raises AttributeError and
\* the lines after it (the choice of laserpwr_best, the clamping, the change
\* of the laser power) are not reached.
power_setter(e, pwr) ==
    IF ~e.is_calibrated THEN Raise(e, "ValueError")
    ELSE IF "_analyzers" \notin e.attrs THEN Raise(e, "AttributeError")
    ELSE IF e.curr_laserpower \notin DOMAIN e.power_ranges THEN Raise(e, "KeyError")
    ELSE IF \/ pwr < e.power_ranges[e.curr_laserpower].min
            \/ pwr > e.power_ranges[e.curr_laserpower].max
         THEN Raise(e, "AttributeError")
    ELSE IlluminationControl_power(e, pwr)

\* IlluminationLaserControl.load_calibration_database()
load_calibration_database(e, file) ==
    LET got == load_database(file, [name |-> e.index.name],
                   [sel |-> "last combinations", date |-> slice_None,
                    time |-> slice_None])
        e1 == [e EXCEPT !.cali_db = got.rows, !.attrs = @ \cup {"cali_db"}]
        pwrs == {got.rows[i].lp : i \in {i \in DOMAIN got.rows :
                                          got.rows[i].wl = e.curr_laser}}
    IN IF got.err # NoErr THEN Raise(e, got.err)
       \* min() of an empty sequence
       ELSE IF pwrs = {} THEN Raise(e1, "ValueError")
       ELSE LET e2 == [e1 EXCEPT !.curr_laserpower = Min(pwrs),
                                 !.attrs = @ \cup {"curr_laserpower"},
                                 !.is_calibrated = TRUE]
                e3 == laser_setter(e2, PyInt(e2.curr_laser))
            IN IF e3.err # NoErr THEN e3
               ELSE laserpower_setter(e3, e3.curr_laserpower)

\* try: ... except: pass
swallow(e) == [e EXCEPT !.err = NoErr]

\* IlluminationControl.__init__(config, do_load_cal)
IlluminationControl_init(class, classpath, file, config_index, do_load_cal) ==
    LET e == [cls |-> class, anaconfig |-> classpath,
              is_calibrated |-> FALSE, analyzer |-> <<>>,
              curr_laser |-> 0, curr_laserpower |-> 0, index |-> config_index,
              lasers |-> <<>>, cali_db |-> <<>>, analyzers |-> <<>>,
              power_ranges |-> <<>>, attrs |-> {}, calls |-> <<>>,
              err |-> NoErr]
    IN IF do_load_cal THEN swallow(IlluminationControl_load_calibration(e, file))
       ELSE e

\* IlluminationLaserControl.__init__(config, do_load_cal), every laser a
\* TestLaser (disabled, power 0)
IlluminationLaserControl_init(classpath, file, config_index, do_load_cal) ==
    LET e == IlluminationControl_init(ILC, classpath, file, config_index, do_load_cal)
        e1 == [e EXCEPT !.index = [name |-> config_index.name,
                                   wl |-> slice_None, lp |-> slice_None],
                        !.lasers = [l \in Lasers |-> [enabled |-> FALSE, power |-> 0]],
                        !.curr_laser = first_laser]
    IN IF do_load_cal THEN swallow(load_calibration_database(e1, file))
       ELSE e1

----------------------------------------------------------------------------
(* The instrument and its store: the state machine *)

Row(name, wl, lp, date, time, bkg, amp, phi) ==
    [name |-> name, wl |-> wl, lp |-> lp, date |-> date, time |-> time,
     pars |-> [bkg |-> bkg, amp |-> amp, phi |-> phi]]

\* The database files the instrument is constructed on: no file; three laser
\* powers of laser 488 with output ranges [0,40], [10,90], [50,150] and no
\* row of laser 561; both lasers, with an older row of 488 at 100 mW; rows of
\* laser 561 only; rows of another device only.
Databases ==
    { <<>>,
      << Row(1, 488, 100, 0, 0, 0, 40, 0), Row(1, 488, 200, 0, 0, 10, 80, 0),
         Row(1, 488, 500, 0, 1, 50, 100, 0) >>,
      << Row(1, 488, 100, 0, 0, 0, 20, 0), Row(1, 561, 200, 0, 1, 0, 80, 1),
         Row(1, 488, 100, 1, 0, 0, 40, 0), Row(1, 488, 200, 1, 0, 10, 80, 0),
         Row(2, 561, 100, 1, 1, 0, 60, 0) >>,
      << Row(1, 561, 200, 0, 0, 0, 80, 0), Row(1, 561, 500, 0, 1, 20, 100, 0) >>,
      << Row(2, 488, 100, 0, 0, 0, 40, 0) >> }

\* config['index'] as the tests give it to either class
config_index(class) ==
    IF class = IC THEN [name |-> 1, wl |-> 488, lp |-> 100] ELSE [name |-> 1]

\* the sample powers asked for, the laser powers set and the laser names given
RequestedPowers == {0, 5, 40, 70, 89, 150, 1000}

LaserPowerArgs == {100, 200, 300, 500}

LaserArgs == {PyInt(488), PyInt(561), PyInt(640), PyStr(561), PyStr(not_a_number)}

\* the instrument as it is now, at the start of an operation
Instrument ==
    [cls |-> cls, anaconfig |-> anaconfig,
     is_calibrated |-> is_calibrated, analyzer |-> analyzer,
     curr_laser |-> curr_laser, curr_laserpower |-> curr_laserpower,
     index |-> index, lasers |-> lasers, cali_db |-> cali_db,
     analyzers |-> analyzers, power_ranges |-> power_ranges, attrs |-> attrs,
     calls |-> <<>>, err |-> NoErr]

\* the instrument an operation leaves, and what the operation was
Becomes(e, op, arg) ==
    /\ cls' = e.cls
    /\ anaconfig' = e.anaconfig
    /\ is_calibrated' = e.is_calibrated
    /\ analyzer' = e.analyzer
    /\ curr_laser' = e.curr_laser
    /\ curr_laserpower' = e.curr_laserpower
    /\ index' = e.index
    /\ lasers' = e.lasers
    /\ cali_db' = e.cali_db
    /\ analyzers' = e.analyzers
    /\ power_ranges' = e.power_ranges
    /\ attrs' = e.attrs
    /\ calls' = e.calls
    /\ result' = [op |-> op, arg |-> arg, err |-> e.err]

Init ==
    /\ store \in Databases
    /\ now = 0
    /\ last_save = NoSave
    /\ last_load = NoLoad
    /\ \E class \in {IC, ILC}, do_load_cal \in BOOLEAN :
       \E classpath \in (IF class = IC THEN {Sinus} ELSE {Sinus, Linear}) :
         LET e == IF class = IC
                  THEN IlluminationControl_init(IC, Sinus, store, config_index(IC), do_load_cal)
                  ELSE IlluminationLaserControl_init(classpath, store, config_index(ILC),
                                                     do_load_cal)
         IN /\ cls = e.cls
            /\ anaconfig = e.anaconfig
            /\ is_calibrated = e.is_calibrated
            /\ analyzer = e.analyzer
            /\ curr_laser = e.curr_laser
            /\ curr_laserpower = e.curr_laserpower
            /\ index = e.index
            /\ lasers = e.lasers
            /\ cali_db = e.cali_db
            /\ analyzers = e.analyzers
            /\ power_ranges = e.power_ranges
            /\ attrs = e.attrs
            /\ calls = <<>>
            /\ result = [op |-> "__init__", arg |-> PyInt(0), err |-> NoErr]
    /\ writers = NoWriters
    /\ saving = NoSaving
    /\ run = NoRun
    /\ curve = NoCurve

\* instrument.power = pwr
SetPower(pwr) ==
    /\ Becomes(IF cls = ILC THEN power_setter(Instrument, pwr)
               ELSE IlluminationControl_power(Instrument, pwr),
               "power", PyInt(pwr))
    /\ UNCHANGED storeVars
    /\ UNCHANGED auxVars

\* instrument.laser = laser
SetLaser(laser) ==
    /\ cls = ILC
    /\ Becomes(laser_setter(Instrument, laser), "laser", laser)
    /\ UNCHANGED storeVars
    /\ UNCHANGED auxVars

\* instrument.laserpower = laserpower
SetLaserPower(laserpower) ==
    /\ cls = ILC
    /\ Becomes(laserpower_setter(Instrument, laserpower), "laserpower", PyInt(laserpower))
    /\ UNCHANGED storeVars
    /\ UNCHANGED auxVars

\* instrument.laser_enabled = value
SetLaserEnabled(value) ==
    /\ cls = ILC
    /\ Becomes(laser_enabled_setter(Instrument, value), "laser_enabled",
               PyInt(IF value THEN 1 ELSE 0))
    /\ UNCHANGED storeVars
    /\ UNCHANGED auxVars

\* instrument.load_calibration_database()
LoadCalibrationDatabase ==
    /\ cls = ILC
    /\ Becomes(load_calibration_database(Instrument, store),
               "load_calibration_database", PyInt(0))
    /\ UNCHANGED storeVars
    /\ UNCHANGED auxVars

\* instrument.load_calibration()
LoadCalibration ==
    /\ cls = IC
    /\ Becomes(IlluminationControl_load_calibration(Instrument, store),
               "load_calibration", PyInt(0))
    /\ UNCHANGED storeVars
    /\ UNCHANGED auxVars

Next ==
    \/ \E pwr \in RequestedPowers : SetPower(pwr)
    \/ \E laser \in LaserArgs : SetLaser(laser)
    \/ \E laserpower \in LaserPowerArgs : SetLaserPower(laserpower)
    \/ \E value \in BOOLEAN : SetLaserEnabled(value)
    \/ LoadCalibrationDatabase
    \/ LoadCalibration

Spec == Init /\ [][Next]_vars

----------------------------------------------------------------------------
(* The power-control engine: claims *)

\* the instrument is the multi-laser engine, calibrated, with its buckets
\* populated and one of them active
Calibrated ==
    /\ cls = ILC
    /\ is_calibrated
    /\ "_analyzers" \in attrs
    /\ curr_laserpower \in DOMAIN power_ranges

\* the bucket the selection rule names: the least laser power whose range
\* maximum times 0.95 reaches the request, the greatest laser power if none does
BucketFor(ranges, requested) ==
    LET reaching == {p \in DOMAIN ranges : ranges[p].max * 95 >= requested * 100}
    IN IF reaching # {} THEN Min(reaching) ELSE Max(DOMAIN ranges)

OutsideActive(requested) ==
    \/ requested < power_ranges[curr_laserpower].min
    \/ requested > power_ranges[curr_laserpower].max

\* C1: a set_power(requested) on a calibrated engine whose request is outside
\* the range of the active bucket makes the bucket BucketFor names the active
\* one (the least laser power with max * 0.95 >= requested, else the greatest).
C1_BucketChosen ==
    [][\A requested \in RequestedPowers :
          (/\ Calibrated
           /\ OutsideActive(requested)
           /\ result'.op = "power"
           /\ result'.arg = PyInt(requested))
          => curr_laserpower' = BucketFor(power_ranges, requested)]_vars

\* C2: set_power on a calibrated engine never raises, whatever the request.
C2_SetPowerNeverRaises ==
    (Calibrated /\ result.op = "power") => result.err = NoErr

\* the calls of the last operation that hand a power to the model inversion
Inversions == {i \in DOMAIN calls : calls[i].op = "analyzer.estimate"}

Clamp(requested, range) ==
    IF requested < range.min THEN range.min
    ELSE IF requested > range.max THEN range.max
    ELSE requested

C4_NotCalibratedFails ==
    [][(~is_calibrated /\ result'.op = "power") =>
          /\ result'.err = "ValueError"
          /\ calls' = <<>>
          /\ UNCHANGED <<is_calibrated, curr_laser, curr_laserpower, lasers,
                         index, analyzer, analyzers, power_ranges, cali_db,
                         attrs>>]_vars

\* a set_power of the not calibrated engine has failed
C4_FailedNotCalibrated ==
    /\ cls = ILC
    /\ ~is_calibrated
    /\ result.op = "power"
    /\ result.err = "ValueError"

\* the laser name is none of the configured lasers, as an int or as a str
NotConfigured(laser) == laser.n \notin Lasers

\* C5: set_laser with a name that is no configured laser raises KeyError and
\* changes nothing of the instrument.
C5_UnknownLaserFails ==
    [][(result'.op = "laser" /\ NotConfigured(result'.arg)) =>
          /\ result'.err = "KeyError"
          /\ calls' = <<>>
          /\ UNCHANGED <<is_calibrated, curr_laser, curr_laserpower, lasers,
                         index, analyzer, analyzers, power_ranges, cali_db,
                         attrs>>]_vars

\* a set_laser of an unknown laser has failed on a calibrated engine whose
\* current laser is enabled
C5_FailedUnknownLaser ==
    /\ Calibrated
    /\ lasers[curr_laser].enabled
    /\ result.op = "laser"
    /\ NotConfigured(result.arg)
    /\ result.err = "KeyError"

\* the rows the loaded table holds for a laser
RowsOf(db, laser) == {db[i] : i \in {i \in DOMAIN db : db[i].wl = laser}}

\* C6: after a set_laser that succeeded on a calibrated engine the buckets
\* are the laser powers of the rows the loaded table holds for that laser,
\* each with the model of its row and an ascending range, and the least of
\* them is the active bucket and the power commanded to the laser.
C6_BucketsOfLaser ==
    (cls = ILC /\ is_calibrated /\ result.op = "laser" /\ result.err = NoErr) =>
        LET rows == RowsOf(cali_db, curr_laser)
            pwrs == {row.lp : row \in rows}
        IN /\ curr_laser = result.arg.n
           /\ DOMAIN power_ranges = pwrs
           /\ DOMAIN analyzers = pwrs
           /\ \A row \in rows :
                /\ analyzers[row.lp] = row.pars
                /\ power_ranges[row.lp].min <= power_ranges[row.lp].max
                /\ power_ranges[row.lp] = sorted(output_range(row.pars))
           /\ pwrs # {}
           /\ curr_laserpower = Min(pwrs)
           /\ index.lp = Min(pwrs)
           /\ analyzer = analyzers[Min(pwrs)]
           /\ lasers[curr_laser].power = Min(pwrs)
           /\ calls[Len(calls)] = LaserPower(curr_laser, Min(pwrs))

\* a set_laser has succeeded on a calibrated engine whose table holds rows of
\* both lasers, and has found more than one bucket
C6_LaserSet ==
    /\ cls = ILC
    /\ is_calibrated
    /\ result.op = "laser"
    /\ result.err = NoErr
    /\ Cardinality(DOMAIN power_ranges) > 1
    /\ \E i \in DOMAIN cali_db : cali_db[i].wl # curr_laser

\* C7: when the table holds rows of the device but none of laser l, a
\* set_laser(l), and a load of the calibration database while l is the current
\* laser, do not raise and leave the engine not calibrated.
C7_NoRowsNotCalibrated ==
    LET loaded == load_database(store, [name |-> index.name],
                      [sel |-> "last combinations", date |-> slice_None,
                       time |-> slice_None])
    IN (/\ cls = ILC
        /\ \/ result.op = "load_calibration_database"
           \/ (result.op = "laser" /\ ~NotConfigured(result.arg))
        /\ loaded.err = NoErr
        /\ RowsOf(loaded.rows, curr_laser) = {})
       => (result.err = NoErr /\ ~is_calibrated)

----------------------------------------------------------------------------
(* The calibration store on its own: saves and loads against the clock *)

Latest == [sel |-> "latest", date |-> slice_None, time |-> slice_None]

InitStore ==
    /\ store = <<>>
    /\ now = 0
    /\ last_save = NoSave
    /\ last_load = NoLoad
    /\ LET e == IlluminationControl_init(IC, Sinus, <<>>, config_index(IC), FALSE)
       IN /\ cls = e.cls
          /\ anaconfig = e.anaconfig
          /\ is_calibrated = e.is_calibrated
          /\ analyzer = e.analyzer
          /\ curr_laser = e.curr_laser
          /\ curr_laserpower = e.curr_laserpower
          /\ index = e.index
          /\ lasers = e.lasers
          /\ cali_db = e.cali_db
          /\ analyzers = e.analyzers
          /\ power_ranges = e.power_ranges
          /\ attrs = e.attrs
          /\ calls = <<>>
          /\ result = [op |-> "__init__", arg |-> PyInt(0), err |-> NoErr]
    /\ writers = NoWriters
    /\ saving = NoSaving
    /\ run = NoRun
    /\ curve = NoCurve

\* a minute passes
Tick ==
    /\ now < MaxNow
    /\ now' = now + 1
    /\ UNCHANGED <<store, last_save, last_load>>
    /\ UNCHANGED engineVars
    /\ UNCHANGED auxVars

\* io.save_calibration(fname, idx, cali_pars): the clock is read for the date,
\* then (tick minutes later) for the time; the file is read (read_fails: no
\* read succeeded within 10 s), the row is set and the file is written
SaveCalibration(idx, cali_pars, tick, read_fails) ==
    /\ now + tick <= MaxNow
    /\ read_fails => store # <<>>
    /\ LET saved == save_calibration(store, idx, cali_pars, now, now + tick, read_fails)
       IN /\ Len(saved.file) <= MaxRows
          /\ store' = saved.file
          /\ last_save' = [idx |-> idx, cali_pars |-> cali_pars,
                           indexvals |-> saved.indexvals, read_fails |-> read_fails]
    /\ now' = now + tick
    /\ last_load' = NoLoad
    /\ UNCHANGED engineVars
    /\ UNCHANGED auxVars

\* io.load_database(fname, idx, time_idx)
LoadDatabase(idx, time_idx) ==
    /\ LET got == load_database(store, idx, time_idx)
       IN last_load' = [op |-> "load_database", idx |-> idx, time_idx |-> time_idx,
                        err |-> got.err, rows |-> got.rows, cali_pars |-> <<>>]
    /\ UNCHANGED <<store, now, last_save>>
    /\ UNCHANGED engineVars
    /\ UNCHANGED auxVars

\* io.load_calibration(fname, idx), time_idx='latest'
LoadCalibration_io(idx) ==
    /\ LET got == load_calibration(store, idx, Latest)
       IN last_load' = [op |-> "load_calibration", idx |-> idx, time_idx |-> Latest,
                        err |-> got.err, rows |-> <<>>, cali_pars |-> got.cali_pars]
    /\ UNCHANGED <<store, now, last_save>>
    /\ UNCHANGED engineVars
    /\ UNCHANGED auxVars

NextStore ==
    \/ Tick
    \/ \E idx \in SaveIndices, cali_pars \in CaliPars, tick \in {0, 1},
          read_fails \in BOOLEAN :
            SaveCalibration(idx, cali_pars, tick, read_fails)
    \/ \E idx \in LoadIndices, time_idx \in TimeSelectors : LoadDatabase(idx, time_idx)
    \/ \E idx \in LoadIndices : LoadCalibration_io(idx)

SpecStore == InitStore /\ [][NextStore]_vars

----------------------------------------------------------------------------
(* Claims about the store, checked under SpecStore.  A load recorded in
   last_load read the table that store still holds: every save clears the
   record. *)

\* the rows of the store the index of the recorded load matches
Filtered ==
    LET Sel(row) == Matches(row, index_full(last_load.idx))
    IN SelectSeq(store, Sel)

\* r1 carries a later (date, time) than r2
Later(r1, r2) ==
    r1.date > r2.date \/ (r1.date = r2.date /\ r1.time > r2.time)

Loaded(sel) ==
    /\ last_load.op = "load_database"
    /\ last_load.err = NoErr
    /\ last_load.time_idx.sel = sel

\* C8: a load with 'last combinations' returns exactly one row of every
\* (device, wavelength, laser power) combination of the filtered table, the
\* one with the greatest (date, time) of its combination; a load with 'all'
\* returns every row of the filtered table.
C8_LastOfEveryCombination ==
    /\ Loaded("all") => last_load.rows = Filtered
    /\ Loaded("last combinations") =>
         LET rows == last_load.rows
         IN /\ \A i \in DOMAIN Filtered :
                   Cardinality({j \in DOMAIN rows :
                                  Combo(rows[j]) = Combo(Filtered[i])}) = 1
            /\ \A j \in DOMAIN rows :
                   /\ \E i \in DOMAIN Filtered : Filtered[i] = rows[j]
                   /\ \A i \in DOMAIN Filtered :
                          Combo(Filtered[i]) = Combo(rows[j])
                              => ~Later(Filtered[i], rows[j])

\* C9: a load with 'latest' for a given device returns the one row with the
\* most recent (date, time) of the rows its index matches, also when the
\* wavelength or the laser power is left out and the matched rows are of
\* several (wavelength, laser power) combinations.
C9_LatestIsMostRecent ==
    (Loaded("latest") /\ last_load.idx.name # slice_None) =>
        /\ Len(last_load.rows) = 1
        /\ \E i \in DOMAIN Filtered : Filtered[i] = last_load.rows[1]
        /\ \A i \in DOMAIN Filtered : ~Later(Filtered[i], last_load.rows[1])

\* C10: after a save, a load of the same device, wavelength and laser power
\* with 'latest' returns exactly the parameter mapping that save was given,
\* under the date and time that save stamped, whatever the store held before.
C10_LoadReturnsSaved ==
    (/\ last_save # NoSave
     /\ last_load # NoLoad
     /\ last_load.idx = last_save.idx
     /\ last_load.time_idx = Latest) =>
        /\ last_load.err = NoErr
        /\ last_load.op = "load_calibration"
               => last_load.cali_pars = last_save.cali_pars
        /\ last_load.op = "load_database"
               => /\ Len(last_load.rows) = 1
                  /\ Key(last_load.rows[1]) = last_save.indexvals
                  /\ not_nan(last_load.rows[1].pars) = last_save.cali_pars

----------------------------------------------------------------------------
(* The store under saves alone *)

NextSave ==
    \/ Tick
    \/ \E idx \in SaveIndices, cali_pars \in CaliPars, tick \in {0, 1},
          read_fails \in BOOLEAN :
            SaveCalibration(idx, cali_pars, tick, read_fails)

SpecSave == InitStore /\ [][NextSave]_vars

\* C11: a save that changes the store leaves every row the store held before
\* where and as it was and adds one row, also when it is a save of the same
\* index within the same clock minute or one whose reads of the file all failed.
C11_SaveKeepsRows ==
    [][store' # store =>
          /\ Len(store') = Len(store) + 1
          /\ \A i \in DOMAIN store : store'[i] = store[i]]_vars

----------------------------------------------------------------------------
(* Two processes that save to the same file.  save_calibration stamps its
   index, reads the file and, in a later step, sets its row in the table it
   read and writes that table over the file. *)

Procs == {1, 2}

\* a process that has not called save_calibration yet
Idle == [pc |-> "idle", idx |-> NoSave.idx, cali_pars |-> <<>>,
         indexvals |-> <<>>, db |-> <<>>]

\* the files the two processes find: none, or one with a row of another device
WriterStores == {<<>>, <<Row(2, 561, 100, 0, 0, 0, 40, 0)>>}

InitWriters ==
    /\ store \in WriterStores
    /\ now = 0
    /\ last_save = NoSave
    /\ last_load = NoLoad
    /\ LET e == IlluminationControl_init(IC, Sinus, <<>>, config_index(IC), FALSE)
       IN /\ cls = e.cls
          /\ anaconfig = e.anaconfig
          /\ is_calibrated = e.is_calibrated
          /\ analyzer = e.analyzer
          /\ curr_laser = e.curr_laser
          /\ curr_laserpower = e.curr_laserpower
          /\ index = e.index
          /\ lasers = e.lasers
          /\ cali_db = e.cali_db
          /\ analyzers = e.analyzers
          /\ power_ranges = e.power_ranges
          /\ attrs = e.attrs
          /\ calls = <<>>
          /\ result = [op |-> "__init__", arg |-> PyInt(0), err |-> NoErr]
    /\ writers = [before |-> store, proc |-> [p \in Procs |-> Idle]]
    /\ saving = NoSaving
    /\ run = NoRun
    /\ curve = NoCurve

\* process p enters save_calibration(fname, idx, cali_pars) and stamps the index
WriterBegin(p, idx, cali_pars) ==
    /\ writers.proc[p].pc = "idle"
    /\ writers' = [writers EXCEPT !.proc[p] =
                     [pc |-> "read", idx |-> idx, cali_pars |-> cali_pars,
                      indexvals |-> <<idx.name, idx.wl, idx.lp,
                                      strftime_date(now), strftime_time(now)>>,
                      db |-> <<>>]]
    /\ UNCHANGED <<store, now, last_save, last_load, run, curve, saving>>
    /\ UNCHANGED engineVars

\* process p finds no file and builds a new table, or reads the file
WriterRead(p) ==
    /\ writers.proc[p].pc = "read"
    /\ writers' = [writers EXCEPT !.proc[p].pc = "write", !.proc[p].db = store]
    /\ UNCHANGED <<store, now, last_save, last_load, run, curve, saving>>
    /\ UNCHANGED engineVars

\* process p sets its row in the table it holds and writes the table to the file
WriterWrite(p) ==
    /\ writers.proc[p].pc = "write"
    /\ store' = set_row(writers.proc[p].db, writers.proc[p].indexvals,
                        writers.proc[p].cali_pars)
    /\ writers' = [writers EXCEPT !.proc[p].pc = "done"]
    /\ UNCHANGED <<now, last_save, last_load, run, curve, saving>>
    /\ UNCHANGED engineVars

\* a minute passes while the processes save
WriterTick ==
    /\ now < MaxNow
    /\ now' = now + 1
    /\ UNCHANGED <<store, last_save, last_load, writers, run, curve, saving>>
    /\ UNCHANGED engineVars

NextWriters ==
    \/ \E p \in Procs, idx \in SaveIndices, cali_pars \in CaliPars :
           WriterBegin(p, idx, cali_pars)
    \/ \E p \in Procs : WriterRead(p)
    \/ \E p \in Procs : WriterWrite(p)
    \/ WriterTick

SpecWriters == InitWriters /\ [][NextWriters]_vars

\* the rows of a table, as a set
RowSet(db) == {db[i] : i \in DOMAIN db}

\* C13: once two processes have completed saves with different keys on one
\* file, in whatever order their reads and writes were interleaved, the store
\* holds the rows of both and every row it held before.
C13_BothSavesKept ==
    (/\ \A p \in Procs : writers.proc[p].pc = "done"
     /\ writers.proc[1].indexvals # writers.proc[2].indexvals) =>
        /\ \A p \in Procs :
               \E i \in DOMAIN store : Key(store[i]) = writers.proc[p].indexvals
        /\ RowSet(writers.before) \subseteq RowSet(store)

----------------------------------------------------------------------------
(* io.py: the retry loop of save_calibration, one call followed step by step.
   Time is counted in units of the 0.05 s the loop sleeps after a failed
   read, so every failed attempt moves the clock by at least one unit. *)

\* the 10 seconds after which the loop gives up, in sleeps of 0.05 s
retry_timeout == 200

\* the clock of the loop is followed up to here
MaxElapsed == 204

\* how long a failed read and the sleep after it take: the sleep alone, or longer
ReadDurations == {1, 3}

\* the files the call finds: none, one with a row of another device, one
\* with a row under the index the call saves first
RetryStores ==
    {<<>>, <<Row(2, 561, 100, 0, 0, 0, 40, 0)>>,
     <<Row(1, 488, 100, 0, 0, 10, 40, 2), Row(2, 561, 100, 0, 0, 0, 40, 0)>>}

\* a call of save_calibration that has not started
NotSaving == [pc |-> "idle", cali_pars |-> <<>>, indexvals |-> <<>>,
              db |-> <<>>, elapsed |-> 0, failed |-> 0, anew |-> FALSE]

\* a loop whose test of the time gone never succeeds
C25_timed_out_never(elapsed) == FALSE

\* time.time() - tic > 10
timed_out(elapsed) == elapsed > retry_timeout

InitRetry ==
    /\ store \in RetryStores
    /\ now = 0
    /\ last_save = NoSave
    /\ last_load = NoLoad
    /\ LET e == IlluminationControl_init(IC, Sinus, <<>>, config_index(IC), FALSE)
       IN /\ cls = e.cls
          /\ anaconfig = e.anaconfig
          /\ is_calibrated = e.is_calibrated
          /\ analyzer = e.analyzer
          /\ curr_laser = e.curr_laser
          /\ curr_laserpower = e.curr_laserpower
          /\ index = e.index
          /\ lasers = e.lasers
          /\ cali_db = e.cali_db
          /\ analyzers = e.analyzers
          /\ power_ranges = e.power_ranges
          /\ attrs = e.attrs
          /\ calls = <<>>
          /\ result = [op |-> "__init__", arg |-> PyInt(0), err |-> NoErr]
    /\ writers = NoWriters
    /\ run = NoRun
    /\ curve = NoCurve
    /\ saving = NotSaving

\* save_calibration(fname, idx, cali_pars) stamps the index; with no file it
\* builds a new table, with a file it takes tic and enters the loop
SavingBegin(idx, cali_pars) ==
    /\ saving.pc = "idle"
    /\ saving' = [saving EXCEPT
                    !.pc = IF store = <<>> THEN "write" ELSE "loop",
                    !.cali_pars = cali_pars,
                    !.indexvals = <<idx.name, idx.wl, idx.lp,
                                    strftime_date(now), strftime_time(now)>>]
    /\ UNCHANGED <<storeVars, engineVars, writers, run, curve>>

\* the top of the loop finds more than 10 s gone: a table anew, and out
SavingGiveUp ==
    /\ saving.pc = "loop"
    /\ timed_out(saving.elapsed)
    /\ saving' = [saving EXCEPT !.pc = "write", !.db = <<>>, !.anew = TRUE]
    /\ UNCHANGED <<storeVars, engineVars, writers, run, curve>>

\* read_excel returns the table of the file: out of the loop
SavingRead ==
    /\ saving.pc = "loop"
    /\ ~timed_out(saving.elapsed)
    /\ saving' = [saving EXCEPT !.pc = "write", !.db = store]
    /\ UNCHANGED <<storeVars, engineVars, writers, run, curve>>

\* read_excel raises: sleep 0.05 s and go to the top of the loop; failed is
\* the number of failed attempts, modulo 2
SavingReadFails(d) ==
    /\ saving.pc = "loop"
    /\ ~timed_out(saving.elapsed)
    /\ saving' = [saving EXCEPT
                    !.elapsed = IF @ + d > MaxElapsed THEN MaxElapsed ELSE @ + d,
                    !.failed = (@ + 1) % 2]
    /\ UNCHANGED <<storeVars, engineVars, writers, run, curve>>

\* the row is set in the table held and the table written over the file
SavingWrite ==
    /\ saving.pc = "write"
    /\ store' = set_row(saving.db, saving.indexvals, saving.cali_pars)
    /\ saving' = [saving EXCEPT !.pc = "done"]
    /\ UNCHANGED <<now, last_save, last_load, engineVars, writers, run, curve>>

NextRetry ==
    \/ \E idx \in SaveIndices, cali_pars \in CaliPars : SavingBegin(idx, cali_pars)
    \/ SavingGiveUp
    \/ SavingRead
    \/ \E d \in ReadDurations : SavingReadFails(d)
    \/ SavingWrite

SpecRetry == InitRetry /\ [][NextRetry]_vars

\* the process inside save_calibration keeps running
SpecRetryFair == SpecRetry /\ WF_vars(NextRetry)

\* C25: save always terminates: no attempt to read is made once more than 10 s
\* have gone since the loop started, the loop then leaves with a table anew,
\* and every call ends having written a table that holds its row
C25_SaveTerminates ==
    /\ [][(saving.pc = "loop" /\ saving.elapsed > retry_timeout)
             => (saving'.pc = "write" /\ saving'.db = <<>>)]_vars
    /\ <>(/\ saving.pc = "done"
          /\ \E i \in DOMAIN store : Key(store[i]) = saving.indexvals)

\* every attempt failed, the loop gave up and the call wrote a table of its row alone
C25_GaveUpAndWrote ==
    /\ saving.pc = "done"
    /\ saving.anew
    /\ Len(store) = 1
    /\ Key(store[1]) = saving.indexvals

----------------------------------------------------------------------------
(* calibrate.py: the 1D calibration and the 2D protocol *)

\* attenuator.set(ctrlval) of the sweep
AttenuatorSetValue(ctrlval) ==
    [op |-> "attenuator.set_value", laser |-> 0, val |-> ctrlval, model |-> <<>>]

\* np.arange(start, stop, step) of integers, step > 0
np_arange(start, stop, step) ==
    LET n == IF stop <= start THEN 0 ELSE ((stop - start - 1) \div step) + 1
    IN [k \in 1..n |-> start + (k - 1) * step]

\* CalibrationProtocol1D.save_calibration(): get_model() of the analyzer is
\* saved under config['index'], which io.save_calibration stamps with its
\* date and time
protocol_save_calibration(e, file, t_date, t_time) ==
    LET saved == save_calibration(file, e.index, e.analyzer, t_date, t_time, FALSE)
        stamped == [k \in DOMAIN e.index \cup {"date", "time"} |->
                      IF k = "date" THEN saved.indexvals[4]
                      ELSE IF k = "time" THEN saved.indexvals[5]
                      ELSE e.index[k]]
    IN [e |-> [e EXCEPT !.index = stamped], file |-> saved.file,
        indexvals |-> saved.indexvals]

\* powers[i] = self.powermeter.read() of the sweep
PowermeterRead(i) ==
    [op |-> "powermeter.read", laser |-> 0, val |-> i, model |-> <<>>]

\* self.instrument.analyzer.fit(control_par_vals, powers)
AnalyzerFit == [op |-> "analyzer.fit", laser |-> 0, val |-> 0, model |-> <<>>]

\* self.save_calibration() of calibrate
SaveCalibrationCall ==
    [op |-> "save_calibration", laser |-> 0, val |-> 0, model |-> <<>>]

\* a fit that raises in place of finding parameters
FitRaises == <<>>

\* the sweep of calibrate(): for each control value in turn, attenuator.set,
\* then powermeter.read into powers[i]
sweep_calls(control_par_vals) ==
    [k \in 1..(2 * Len(control_par_vals)) |->
        IF k % 2 = 1 THEN AttenuatorSetValue(control_par_vals[(k + 1) \div 2])
        ELSE PowermeterRead(k \div 2)]

\* a calibrate() that goes on to is_calibrated = True and the save when the
\* fit raised
C26_calibrate_despite_fit(e, ana, fitted, file, t_date, t_time) ==
    LET control_par_vals == np_arange(ana.min, ana.max + ana.step, ana.step)
        e1 == [e EXCEPT !.calls = @ \o sweep_calls(control_par_vals) \o <<AnalyzerFit>>,
                        !.analyzer = IF fitted = FitRaises THEN @ ELSE fitted,
                        !.attrs = @ \cup {"curr_params", "fit_result"},
                        !.is_calibrated = TRUE]
        got == protocol_save_calibration(Call(e1, SaveCalibrationCall),
                                         file, t_date, t_time)
    IN IF fitted = FitRaises THEN [got EXCEPT !.e = Raise(@, "ValueError")] ELSE got

\* CalibrationProtocol1D.calibrate(): the sweep of the attenuator over
\* np.arange(min, max + step, step) with a reading of the power meter at each
\* value, the fit (fitted is what it finds, or FitRaises), is_calibrated = True
\* and save_calibration()
calibrate(e, ana, fitted, file, t_date, t_time) ==
    LET control_par_vals == np_arange(ana.min, ana.max + ana.step, ana.step)
        e1 == [e EXCEPT !.calls = @ \o sweep_calls(control_par_vals) \o <<AnalyzerFit>>]
        e2 == [e1 EXCEPT !.analyzer = fitted,
                         !.attrs = @ \cup {"curr_params", "fit_result"},
                         !.is_calibrated = TRUE]
    IN IF fitted = FitRaises
       THEN [e |-> Raise(e1, "ValueError"), file |-> file, indexvals |-> <<>>]
       ELSE protocol_save_calibration(Call(e2, SaveCalibrationCall),
                                      file, t_date, t_time)

\* CalibrationProtocol2D.__init__: the protocol with the lasers that are not
\* present left out
CalibrationProtocol2D_protocol(protocol) ==
    LET Present(it) == it \in Lasers
    IN [laser_sequence |-> SelectSeq(protocol.laser_sequence, Present),
        laser_powers |-> [k \in DOMAIN protocol.laser_powers \cap Lasers |->
                            protocol.laser_powers[k]]]

----------------------------------------------------------------------------
(* run_protocol, step by step, against the clock *)

\* the protocol of the tests, with fewer laser powers: laser 640 is not present
Protocols ==
    {[laser_sequence |-> <<488, 640, 561>>,
      laser_powers |-> (488 :> <<100, 200>>) @@ (640 :> <<100>>) @@ (561 :> <<500>>)]}

\* config['analysis']['init_kwargs']: the range of the sweep is a multiple
\* of its step, or is not
SweepConfigs ==
    {[min |-> 0, max |-> 4, step |-> 2], [min |-> 0, max |-> 4, step |-> 3],
     [min |-> 1, max |-> 2, step |-> 1]}

\* what the fit of a sweep may find
FitResults == {[bkg |-> 0, amp |-> 40, phi |-> 1], [bkg |-> 10, amp |-> 80, phi |-> 0]}

\* the laser run_protocol is at, and its laser powers
run_laser == run.protocol.laser_sequence[run.li]

run_laserpowers == run.protocol.laser_powers[run_laser]

InitProtocol ==
    /\ store = <<>>
    /\ now = 0
    /\ last_save = NoSave
    /\ last_load = NoLoad
    /\ LET e == IlluminationLaserControl_init(Sinus, <<>>, config_index(ILC), FALSE)
       IN /\ cls = e.cls
          /\ anaconfig = e.anaconfig
          /\ is_calibrated = e.is_calibrated
          /\ analyzer = e.analyzer
          /\ curr_laser = e.curr_laser
          /\ curr_laserpower = e.curr_laserpower
          /\ index = e.index
          /\ lasers = e.lasers
          /\ cali_db = e.cali_db
          /\ analyzers = e.analyzers
          /\ power_ranges = e.power_ranges
          /\ attrs = e.attrs
          /\ calls = <<>>
          /\ result = [op |-> "__init__", arg |-> PyInt(0), err |-> NoErr]
    /\ writers = NoWriters
    /\ saving = NoSaving
    /\ \E protocol \in Protocols, ana \in SweepConfigs :
         run = [protocol |-> CalibrationProtocol2D_protocol(protocol),
                analysis |-> ana, pc |-> "laser", li |-> 1, pj |-> 1,
                sweep |-> <<>>, swept |-> {}]
    /\ curve = NoCurve

\* run_protocol goes on at pc unless the statement raised
Goes(e, r) == IF e.err = NoErr THEN r ELSE [r EXCEPT !.pc = "failed"]

\* self.instrument.laser = laser
RunSetLaser ==
    /\ run.pc = "laser"
    /\ LET e == laser_setter(Instrument, PyInt(run_laser))
       IN /\ Becomes(e, "laser", PyInt(run_laser))
          /\ run' = Goes(e, [run EXCEPT !.pc = "power", !.pj = 1])
    /\ UNCHANGED <<storeVars, writers, curve, saving>>

\* self.instrument.laserpower = lpwr
RunSetLaserPower ==
    /\ run.pc = "power"
    /\ LET e == laserpower_setter(Instrument, run_laserpowers[run.pj])
       IN /\ Becomes(e, "laserpower", PyInt(run_laserpowers[run.pj]))
          /\ run' = Goes(e, [run EXCEPT !.pc = "calibrate"])
    /\ UNCHANGED <<storeVars, writers, curve, saving>>

\* self.calibrate(): its save reads the clock for the date and, tick minutes
\* later, for the time
RunCalibrate(fitted, tick) ==
    /\ run.pc = "calibrate"
    /\ now + tick <= MaxNow
    /\ LET got == calibrate(Instrument, run.analysis, fitted, store, now, now + tick)
           sweep == <<curr_laser, lasers[curr_laser].power>>
       IN /\ Becomes(got.e, "calibrate", PyInt(0))
          /\ store' = got.file
          /\ last_save' = IF got.e.err # NoErr THEN last_save
                          ELSE [idx |-> index, cali_pars |-> fitted,
                                indexvals |-> got.indexvals, read_fails |-> FALSE]
          /\ run' = Goes(got.e, [run EXCEPT !.pc = "save", !.sweep = sweep,
                                            !.swept = @ \cup {sweep}])
    /\ now' = now + tick
    /\ UNCHANGED <<last_load, writers, curve, saving>>

\* self.save_calibration() of run_protocol, and self.instrument.is_calibrated = False
RunSave(tick) ==
    /\ run.pc = "save"
    /\ now + tick <= MaxNow
    /\ LET got == protocol_save_calibration(Instrument, store, now, now + tick)
       IN /\ Becomes([got.e EXCEPT !.is_calibrated = FALSE],
                     "save_calibration", PyInt(0))
          /\ store' = got.file
          /\ last_save' = [idx |-> index, cali_pars |-> analyzer,
                           indexvals |-> got.indexvals, read_fails |-> FALSE]
    /\ run' = IF run.pj < Len(run_laserpowers)
              THEN [run EXCEPT !.pc = "power", !.pj = @ + 1]
              ELSE [run EXCEPT !.pc = "min"]
    /\ now' = now + tick
    /\ UNCHANGED <<last_load, writers, curve, saving>>

\* self.instrument.laserpower = min(laserpowers)
RunMinPower ==
    /\ run.pc = "min"
    /\ LET lowest == Min({run_laserpowers[j] : j \in DOMAIN run_laserpowers})
           e == laserpower_setter(Instrument, lowest)
       IN /\ Becomes(e, "laserpower", PyInt(lowest))
          /\ run' = Goes(e, [run EXCEPT !.pc = "disable"])
    /\ UNCHANGED <<storeVars, writers, curve, saving>>

\* self.instrument.laser_enabled = False, and on to the next laser
RunDisable ==
    /\ run.pc = "disable"
    /\ Becomes(laser_enabled_setter(Instrument, FALSE), "laser_enabled", PyInt(0))
    /\ run' = IF run.li < Len(run.protocol.laser_sequence)
              THEN [run EXCEPT !.pc = "laser", !.li = @ + 1]
              ELSE [run EXCEPT !.pc = "done"]
    /\ UNCHANGED <<storeVars, writers, curve, saving>>

\* a minute passes during the run
RunTick ==
    /\ run.pc \notin {"done", "failed"}
    /\ now < MaxNow
    /\ now' = now + 1
    /\ UNCHANGED <<store, last_save, last_load, writers, run, curve, saving>>
    /\ UNCHANGED engineVars

NextProtocol ==
    \/ RunSetLaser
    \/ RunSetLaserPower
    \/ \E fitted \in FitResults \cup {FitRaises}, tick \in {0, 1} :
           RunCalibrate(fitted, tick)
    \/ \E tick \in {0, 1} : RunSave(tick)
    \/ RunMinPower
    \/ RunDisable
    \/ RunTick

SpecProtocol == InitProtocol /\ [][NextProtocol]_vars

----------------------------------------------------------------------------
(* Claims about the calibration; checked under SpecProtocol *)

\* the control values the last operation applied to the attenuator, in order
Applied ==
    LET Sets(c) == c.op = "attenuator.set_value"
        sets == SelectSeq(calls, Sets)
    IN [k \in DOMAIN sets |-> sets[k].val]

\* C14: the control values a sweep applies lie within [min, max], the first
\* is min, consecutive values differ by step, and max is applied, also when
\* max - min is no multiple of step.
C14_SweepWithinBounds ==
    result.op = "calibrate" =>
        /\ Len(Applied) >= 1
        /\ Applied[1] = run.analysis.min
        /\ \A k \in DOMAIN Applied :
               /\ Applied[k] >= run.analysis.min
               /\ Applied[k] <= run.analysis.max
               /\ k > 1 => Applied[k] = Applied[k - 1] + run.analysis.step
        /\ \E k \in DOMAIN Applied : Applied[k] = run.analysis.max

\* the (laser, laser power) pairs of the protocol
Pairs ==
    UNION {{<<run.protocol.laser_sequence[i],
              run.protocol.laser_powers[run.protocol.laser_sequence[i]][j]>> :
               j \in DOMAIN run.protocol.laser_powers[run.protocol.laser_sequence[i]]} :
           i \in DOMAIN run.protocol.laser_sequence}

\* C15: after a run of the protocol on an empty store, a load with 'all'
\* returns exactly one row for every (laser, laser power) pair of the
\* protocol, whatever the clock did during the run.
C15_OneRowPerPair ==
    run.pc = "done" =>
        LET got == load_database(store, [name |-> index.name],
                       [sel |-> "all", date |-> slice_None, time |-> slice_None])
        IN /\ got.err = NoErr
           /\ \A pair \in Pairs :
                  Cardinality({i \in DOMAIN got.rows :
                      Combo(got.rows[i]) = <<index.name, pair[1], pair[2]>>}) = 1
           /\ Len(got.rows) = Cardinality(Pairs)

\* C16: every record is saved under the device name, the wavelength of the
\* laser that was current and the laser power that laser was set to while the
\* sweep of the record was measured: so is the record each save of the run
\* writes, and so is every row of the store.
C16_SavedUnderSweep ==
    /\ \A i \in DOMAIN store :
           /\ store[i].name = config_index(ILC).name
           /\ <<store[i].wl, store[i].lp>> \in run.swept
    /\ (result.op \in {"calibrate", "save_calibration"} /\ result.err = NoErr) =>
           /\ last_save.indexvals[1] = config_index(ILC).name
           /\ last_save.indexvals[2] = run.sweep[1]
           /\ last_save.indexvals[3] = run.sweep[2]
           /\ \E i \in DOMAIN store : Key(store[i]) = last_save.indexvals

\* the run has saved the record of its second laser, after those of its first
C16_SecondLaserSaved ==
    /\ result.op = "save_calibration"
    /\ run.li = 2
    /\ Cardinality(run.swept) = 3
    /\ Len(store) >= 3

\* the least of the protocol laser powers of a laser
MinPower(l) ==
    Min({run.protocol.laser_powers[l][j] : j \in DOMAIN run.protocol.laser_powers[l]})

\* C17: when run_protocol disables a laser, that laser has been set to the
\* least of its protocol laser powers; every laser the protocol has moved on
\* from is disabled and at that power; when run_protocol has returned, every
\* laser of the sequence is disabled.
C17_LasersLeftDisabled ==
    run.pc \in {"laser", "power", "calibrate", "save", "min", "disable", "done"} =>
        /\ run.pc = "disable" =>
               /\ curr_laser = run_laser
               /\ lasers[curr_laser].power = MinPower(run_laser)
        /\ \A k \in DOMAIN run.protocol.laser_sequence :
               (k < run.li \/ run.pc = "done") =>
                   /\ ~lasers[run.protocol.laser_sequence[k]].enabled
                   /\ lasers[run.protocol.laser_sequence[k]].power
                          = MinPower(run.protocol.laser_sequence[k])

\* run_protocol has returned, after two lasers
C17_RunReturned ==
    /\ run.pc = "done"
    /\ run.li = 2
    /\ result.op = "laser_enabled"

\* where in the calls of the last operation the calls of one kind are
Positions(op) == {k \in DOMAIN calls : calls[k].op = op}

\* C26: in a 1D calibration each reading of the power meter directly follows
\* the attenuator being set to the control value it is paired with, and every
\* setting of the attenuator is followed by its reading before the next
\* setting; the fit runs once, after the last reading; the save runs only
\* after a fit that returned; a fit that raises leaves the store and
\* is_calibrated unchanged.
C26_ReadFitSaveInOrder ==
    [][result'.op = "calibrate" =>
          LET sets == Positions("attenuator.set_value")'
              reads == Positions("powermeter.read")'
              fits == Positions("analyzer.fit")'
              saves == Positions("save_calibration")'
          IN /\ reads # {}
             /\ \A k \in reads :
                    /\ k - 1 \in sets
                    /\ Cardinality({j \in sets : j < k}) = calls'[k].val
                    /\ calls'[k - 1].val = Applied'[calls'[k].val]
             /\ \A k \in sets : k + 1 \in reads
             /\ Cardinality(fits) = 1
             /\ \A f \in fits : \A k \in reads : k < f
             /\ \A s \in saves : result'.err = NoErr /\ \A f \in fits : f < s
             /\ store' # store => saves # {}
             /\ result'.err = NoErr => (saves # {} /\ is_calibrated')
             /\ result'.err # NoErr =>
                    /\ store' = store
                    /\ is_calibrated' = is_calibrated
                    /\ saves = {}]_vars

\* a fit raised after sweeps of the run had been fitted and saved
C26_FitRaisedAfterSaves ==
    /\ result.op = "calibrate"
    /\ result.err # NoErr
    /\ Len(store) >= 2
    /\ Cardinality(Positions("powermeter.read")) >= 2

\* the lasers that are enabled
EnabledLasers == {l \in DOMAIN lasers : lasers[l].enabled}

\* C30: during run_protocol, started with every laser disabled, at most one
\* laser is enabled at any moment, and the readings of a sweep are taken
\* while exactly the laser whose wavelength tags the sweep is enabled.
C30_OneLaserEnabled ==
    /\ Cardinality(EnabledLasers) <= 1
    /\ result.op = "calibrate" =>
           /\ Positions("powermeter.read") # {}
           /\ index.wl = run.sweep[1]
           /\ EnabledLasers = {run.sweep[1]}

\* the sweep of the second laser of the sequence has been measured
C30_SecondLaserSwept ==
    /\ result.op = "calibrate"
    /\ Positions("powermeter.read") # {}
    /\ run.li = 2
    /\ curr_laser # run.protocol.laser_sequence[1]
    /\ lasers[curr_laser].enabled

-----------------------------------------------------------------------------
(* analysis.py: one curve analyzer object under fit, load_model, get_model,
   estimate, estimate_power and output_range *)

CurveClasses == {Sinus, Linear, Point, Polynom}

\* an attribute that is not set
NoParams == <<>>

\* the parameter sets a fit may find or a caller may load, by class; angles
\* in units of 22.5 degrees
ParamsOf(class) ==
    CASE class = Sinus -> [bkg : {0, 10}, amp : {40}, phi : 0..3]
      [] class = Linear -> [bkg : {0, 10}, amp : {10}]
      [] class = Point -> [amp : {7, 40}]
      [] OTHER -> {[p0 |-> 0, p1 |-> 1, i0 |-> 0, i1 |-> 1],
                   [p0 |-> 10, p1 |-> 1, i0 |-> -10, i1 |-> 1]}

\* the powers ys a Point analyzer is fitted to
PointData == {<<7>>, <<30, 50>>, <<8, 8, 8>>, <<1, 2, 6>>}

RECURSIVE np_sum(_)
np_sum(ys) == IF ys = <<>> THEN 0 ELSE ys[1] + np_sum(Tail(ys))

\* a mean that is the first of the values
C21_np_mean_first(ys) == ys[1]

\* np.mean(y), of values whose mean is a whole number
np_mean(ys) == np_sum(ys) \div Len(ys)

\* analysis_parameters 'min' and 'max' of the object
CurveBounds == {[min |-> 0, max |-> 4], [min |-> 0, max |-> 2],
                [min |-> 0, max |-> 1], [min |-> 1, max |-> 2],
                [min |-> 16, max |-> 17], [min |-> 20, max |-> 21],
                [min |-> -22, max |-> -21]}

\* the powers asked of estimate(y): below, at the ends of, inside and above
\* what the parameters describe
RequestedOf(c) ==
    IF c.curr_params = NoParams THEN {0}
    ELSE CASE c.class = Sinus ->
                {c.curr_params.bkg - 10, c.curr_params.bkg,
                 c.curr_params.bkg + c.curr_params.amp \div 2,
                 c.curr_params.bkg + c.curr_params.amp,
                 c.curr_params.bkg + c.curr_params.amp + 10}
           [] c.class = Linear ->
                {c.curr_params.bkg + c.curr_params.amp * x : x \in (c.min - 1)..(c.max + 1)}
           [] c.class = Point ->
                {c.curr_params.amp - 1, c.curr_params.amp, c.curr_params.amp + 1}
           [] OTHER ->
                {c.curr_params.p0 + x : x \in (c.min - 1)..(c.max + 1)}

\* get_model(): the parameters of fit_result when the object has that
\* attribute, else curr_params; the Polynom class returns the coefficients
\* of poly and polinv, which fit and load_model set together with curr_params
Curve_get_model(c) ==
    IF c.class # Polynom /\ c.fit_result # NoParams THEN Returns(c.fit_result)
    ELSE IF c.curr_params = NoParams THEN Raises("AttributeError")
    ELSE Returns(c.curr_params)

\* estimate(y)
Curve_estimate(c, y) ==
    IF c.class = Point THEN Returns(0)
    ELSE IF c.curr_params = NoParams THEN Raises("AttributeError")
    ELSE CASE c.class = Sinus -> Sinus_model_function_inv(y, c.curr_params, c.min, c.max)
           [] c.class = Linear -> Linear_model_function_inv(y, c.curr_params, c.min, c.max)
           [] OTHER -> Polynom_model_function_inv(y, c.curr_params, c.min, c.max)

\* estimate_power(x)
Curve_estimate_power(c, x) ==
    IF c.class = Polynom
    THEN IF c.curr_params = NoParams THEN Returns(0) ELSE Returns(poly(c.curr_params, x))
    ELSE IF c.curr_params = NoParams THEN Raises("AttributeError")
    ELSE CASE c.class = Sinus -> Returns(estimate_power(c.curr_params, x))
           [] c.class = Linear -> Returns(Linear_model_function(x, c.curr_params))
           [] OTHER -> Returns(c.curr_params.amp)

\* output_range()
Curve_output_range(c) ==
    IF c.class = Linear THEN Raises("NotImplementedError")
    ELSE IF c.class = Polynom
    THEN IF c.curr_params = NoParams THEN Raises("TypeError")
         ELSE Returns(Polynom_output_range(c.curr_params, c.min, c.max))
    ELSE IF c.class = Point
    THEN IF c.curr_params = NoParams THEN Raises("AttributeError")
         ELSE Returns(<<c.curr_params.amp, c.curr_params.amp>>)
    ELSE IF Curve_get_model(c).err # NoErr THEN Raises(Curve_get_model(c).err)
    ELSE Returns(Sinus_output_range(Curve_get_model(c).out, c.curr_params, c.min, c.max))

\* the object after __init__; latest is the parameter set of the most recent
\* fit or load_model
InitCurve ==
    /\ store = <<>>
    /\ now = 0
    /\ last_save = NoSave
    /\ last_load = NoLoad
    /\ LET e == IlluminationControl_init(IC, Sinus, <<>>, config_index(IC), FALSE)
       IN /\ cls = e.cls
          /\ anaconfig = e.anaconfig
          /\ is_calibrated = e.is_calibrated
          /\ analyzer = e.analyzer
          /\ curr_laser = e.curr_laser
          /\ curr_laserpower = e.curr_laserpower
          /\ index = e.index
          /\ lasers = e.lasers
          /\ cali_db = e.cali_db
          /\ analyzers = e.analyzers
          /\ power_ranges = e.power_ranges
          /\ attrs = e.attrs
          /\ calls = <<>>
          /\ result = [op |-> "__init__", arg |-> PyInt(0), err |-> NoErr]
    /\ writers = NoWriters
    /\ saving = NoSaving
    /\ run = NoRun
    /\ \E class \in CurveClasses, b \in CurveBounds :
           curve = [class |-> class, min |-> b.min, max |-> b.max,
                    fit_result |-> NoParams, curr_params |-> NoParams,
                    latest |-> NoParams, ys |-> <<>>,
                    op |-> "__init__", arg |-> 0, err |-> NoErr, out |-> <<>>]

Answers(c, op, arg, r) == [c EXCEPT !.op = op, !.arg = arg, !.err = r.err, !.out = r.out]

\* fit(x, y) of the Sinus, Linear and Polynom class: the fit finds the
\* parameters p; the Polynom class sets no fit_result
CurveFit(p) ==
    /\ curve.class \in CurveClasses \ {Point}
    /\ p \in ParamsOf(curve.class)
    /\ curve' = Answers([curve EXCEPT
                            !.fit_result = IF curve.class \in {Sinus, Linear} THEN p ELSE @,
                            !.curr_params = p,
                            !.latest = p],
                        "fit", 0, Returns(<<>>))
    /\ UNCHANGED <<storeVars, engineVars, writers, run, saving>>

\* PointCurveAnalyzer.fit(x, y): curr_params = {'amp': np.mean(y)}, and no
\* fit_result; ys keeps the data of the most recent fit
CurveFitPoint(ys) ==
    /\ curve.class = Point
    /\ curve' = Answers([curve EXCEPT
                            !.curr_params = [amp |-> np_mean(ys)],
                            !.latest = [amp |-> np_mean(ys)],
                            !.ys = ys],
                        "fit", 0, Returns(<<>>))
    /\ UNCHANGED <<storeVars, engineVars, writers, run, saving>>

\* load_model(model_parameters)
CurveLoadModel(p) ==
    /\ curve.class \in CurveClasses
    /\ p \in ParamsOf(curve.class)
    /\ curve' = Answers([curve EXCEPT !.curr_params = p, !.latest = p, !.ys = <<>>],
                        "load_model", 0, Returns(<<>>))
    /\ UNCHANGED <<storeVars, engineVars, writers, run, saving>>

CurveGetModel ==
    /\ curve.class \in CurveClasses
    /\ curve' = Answers(curve, "get_model", 0, Curve_get_model(curve))
    /\ UNCHANGED <<storeVars, engineVars, writers, run, saving>>

CurveEstimate(y) ==
    /\ curve.class \in CurveClasses
    /\ y \in RequestedOf(curve)
    /\ curve' = Answers(curve, "estimate", y, Curve_estimate(curve, y))
    /\ UNCHANGED <<storeVars, engineVars, writers, run, saving>>

CurveEstimatePower(x) ==
    /\ curve.class \in CurveClasses
    /\ x \in curve.min..curve.max
    /\ curve' = Answers(curve, "estimate_power", x, Curve_estimate_power(curve, x))
    /\ UNCHANGED <<storeVars, engineVars, writers, run, saving>>

CurveOutputRange ==
    /\ curve.class \in CurveClasses
    /\ curve' = Answers(curve, "output_range", 0, Curve_output_range(curve))
    /\ UNCHANGED <<storeVars, engineVars, writers, run, saving>>

NextCurve ==
    \/ \E p \in UNION {ParamsOf(class) : class \in CurveClasses} : CurveFit(p)
    \/ \E ys \in PointData : CurveFitPoint(ys)
    \/ \E p \in UNION {ParamsOf(class) : class \in CurveClasses} : CurveLoadModel(p)
    \/ CurveGetModel
    \/ \E y \in -10..60 : CurveEstimate(y)
    \/ \E x \in 0..4 : CurveEstimatePower(x)
    \/ CurveOutputRange

SpecCurve == InitCurve /\ [][NextCurve]_vars

-----------------------------------------------------------------------------
(* Claims about the curve analyzers, under SpecCurve *)

\* the object holds parameters, and get_model() returns the ones estimate
\* and estimate_power evaluate
Consistent(c) ==
    /\ c.curr_params # NoParams
    /\ Curve_get_model(c).out = c.curr_params

\* C18: for every class of curve analyzer, estimate(y) raises the
\* out-of-range error whenever y lies outside the interval output_range()
\* returns for the bounds of the object, and returns no control value for
\* such a y.
C18_OutsideRangeFails ==
    (/\ curve.op = "estimate"
     /\ Consistent(curve)
     /\ Curve_output_range(curve).err = NoErr
     /\ \/ curve.arg < Curve_output_range(curve).out[1]
        \/ curve.arg > Curve_output_range(curve).out[2])
        => curve.err = "ValueError"

\* the object as it would be with the parameters of the most recent fit or
\* load_model alone
WithLatest(c) == [c EXCEPT !.curr_params = c.latest, !.fit_result = NoParams]

SameAnswer(c, r) == c.err = r.err /\ (r.err = NoErr => c.out = r.out)

\* C19: after any sequence of fit and load_model calls, get_model() returns
\* the parameters of the most recent of them, and estimate, estimate_power
\* and output_range evaluate with these parameters.
C19_LatestParametersUsed ==
    curve.latest # NoParams =>
        /\ curve.op = "get_model" =>
               curve.err = NoErr /\ curve.out = curve.latest
        /\ curve.op = "estimate" =>
               SameAnswer(curve, Curve_estimate(WithLatest(curve), curve.arg))
        /\ curve.op = "estimate_power" =>
               SameAnswer(curve, Curve_estimate_power(WithLatest(curve), curve.arg))
        /\ curve.op = "output_range" =>
               SameAnswer(curve, Curve_output_range(WithLatest(curve)))

\* C20: for the sinus analyzer, the interval of output_range() contains the
\* model function at every control value between min and max; its upper end
\* is bkg + amp exactly when the model function has a maximum between min and
\* max (x + phi is 22.5 plus a multiple of 90 degrees), its lower end is bkg
\* exactly when it has a minimum there (x + phi is 67.5 plus a multiple of 90).
C20_RangeContainsCurve ==
    (/\ curve.class = Sinus
     /\ curve.op = "output_range"
     /\ curve.err = NoErr
     /\ Consistent(curve)
     /\ curve.curr_params.amp > 0
     /\ curve.min < curve.max)
        => LET pars == curve.curr_params
               domain == curve.min..curve.max
           IN /\ \A x \in domain :
                     /\ curve.out[1] <= estimate_power(pars, x)
                     /\ estimate_power(pars, x) <= curve.out[2]
              /\ curve.out[2] = pars.bkg + pars.amp
                     <=> \E x \in domain : (x + pars.phi) % phi_period = phi_max
              /\ curve.out[1] = pars.bkg
                     <=> \E x \in domain : (x + pars.phi) % phi_period = phi_min

\* C21: the Point analyzer is a constant: after fit(x, ys), estimate_power
\* returns the mean of ys at every control value, output_range() is
\* [amp, amp] with amp that mean, and estimate returns 0 for every requested
\* power and does not raise.
C21_PointIsConstant ==
    (curve.class = Point /\ curve.ys # <<>>) =>
        /\ curve.curr_params.amp * Len(curve.ys) = np_sum(curve.ys)
        /\ curve.op = "estimate_power" =>
               /\ curve.err = NoErr
               /\ curve.out * Len(curve.ys) = np_sum(curve.ys)
        /\ curve.op = "output_range" =>
               /\ curve.err = NoErr
               /\ curve.out = <<curve.curr_params.amp, curve.curr_params.amp>>
        /\ curve.op = "estimate" => curve.err = NoErr /\ curve.out = 0

\* a Point analyzer fitted to several unequal powers was asked for the power
\* at a control value
C21_PointFittedAndAsked ==
    /\ curve.class = Point
    /\ curve.ys = <<30, 50>>
    /\ curve.op = "estimate_power"
    /\ curve.arg = curve.max
    /\ curve.out = 40

\* the angle _model_function_inv computes before it folds, for the last call
unfolded ==
    arcsin4(curve.arg, curve.curr_params.bkg, curve.curr_params.amp)
        - curve.curr_params.phi

\* C27: for a scalar y in range, the Sinus inversion returns the computed
\* angle shifted by k periods of 90 degrees with |k| <= 5; the angle returned
\* lies within [min, max] whenever the computed angle plus some k periods,
\* |k| <= 5, does, so an angle outside [min, max] is returned only when there
\* is no such k.
C27_FoldsAtMostFive ==
    (curve.class = Sinus /\ curve.op = "estimate" /\ curve.err = NoErr) =>
        /\ \E k \in -5..5 : curve.out = unfolded + k * phi_period
        /\ (\E k \in -5..5 : unfolded + k * phi_period \in curve.min..curve.max)
               => curve.out \in curve.min..curve.max

\* five shifts were needed, and an angle within the bounds was returned
C27_FiveShifts ==
    /\ curve.class = Sinus
    /\ curve.op = "estimate"
    /\ curve.err = NoErr
    /\ curve.out = unfolded + 5 * phi_period
    /\ curve.out \in curve.min..curve.max
    /\ unfolded + 4 * phi_period < curve.min

-----------------------------------------------------------------------------
(* More claims about the engine, under Spec *)

\* C22: a set_power(requested) with requested inside the range of the active
\* bucket leaves the active bucket, the laser power of the index and the
\* power of the laser as they were and sends no command to a laser; the
\* attenuator is set.
C22_InRangeKeepsLaserPower ==
    [][\A requested \in RequestedPowers :
          (/\ Calibrated
           /\ ~OutsideActive(requested)
           /\ result'.op = "power"
           /\ result'.arg = PyInt(requested))
          => /\ curr_laserpower' = curr_laserpower
             /\ index' = index
             /\ lasers' = lasers
             /\ analyzers' = analyzers
             /\ power_ranges' = power_ranges
             /\ \A i \in DOMAIN calls' : calls'[i].op \notin {"laser.power", "laser.enabled"}
             /\ \E i \in DOMAIN calls' : calls'[i].op = "attenuator.set"]_vars

\* a set_power within the range of the active bucket, which is not the
\* lowest one, has set the attenuator
C22_InRangeSet ==
    /\ Calibrated
    /\ result.op = "power"
    /\ result.err = NoErr
    /\ ~OutsideActive(result.arg.n)
    /\ curr_laserpower # Min(DOMAIN power_ranges)
    /\ \E i \in DOMAIN calls : calls[i].op = "attenuator.set"

\* C23: a set_power that has to change the bucket (the request is outside the
\* range of the active bucket and the selection rule names another one)
\* commands the laser to the chosen laser power before it sets the
\* attenuator, and the control value of the attenuator is the inversion of
\* the model of the chosen bucket, not of the bucket active before.
C23_LaserBeforeAttenuator ==
    [][\A requested \in RequestedPowers :
          (/\ Calibrated
           /\ OutsideActive(requested)
           /\ BucketFor(power_ranges, requested) # curr_laserpower
           /\ result'.op = "power"
           /\ result'.arg = PyInt(requested))
          => /\ curr_laserpower' # curr_laserpower
             /\ \E i, j \in DOMAIN calls' :
                   /\ i < j
                   /\ calls'[i] = LaserPower(curr_laser, curr_laserpower')
                   /\ calls'[j].op = "attenuator.set"
                   /\ calls'[j].model = analyzers[curr_laserpower']
                   /\ \A k \in DOMAIN calls' :
                          calls'[k].op = "attenuator.set" => k = j]_vars

\* C24: in the engine, is_calibrated changes only from false to true and only
\* by a load_calibration_database that succeeds: the laser, laserpower,
\* laser_enabled and power setters leave it as it was, whether they succeed
\* or raise.
C24_CalibratedOnlyByLoad ==
    [][(cls = ILC /\ is_calibrated' # is_calibrated)
          => /\ ~is_calibrated
             /\ is_calibrated'
             /\ result'.op = "load_calibration_database"
             /\ result'.err = NoErr]_vars

\* the active laser power is a key of the bucket set, the active model is the
\* model of that bucket, and the laser was last commanded to that power
ActiveBucketConsistent(lp, ana, anas, las, l) ==
    /\ lp \in DOMAIN anas
    /\ ana = anas[lp]
    /\ las[l].power = lp

\* C28: the laser, laserpower and power setters, also when they raise, take
\* a calibrated engine whose active laser power is a key of its bucket set,
\* whose active model is the model of that bucket and whose laser is at that
\* power to a state of which the same is true.
C28_ActiveBucketKept ==
    [][(/\ Calibrated
        /\ ActiveBucketConsistent(curr_laserpower, analyzer, analyzers, lasers, curr_laser)
        /\ result'.op \in {"laser", "laserpower", "power"}
        /\ is_calibrated')
          => ActiveBucketConsistent(curr_laserpower', analyzer', analyzers', lasers',
                                    curr_laser')]_vars

\* the engine as it is now with the bucket of laser power b made the active one
WithActive(b) == [laserpower_setter(Instrument, b) EXCEPT !.calls = <<>>]

\* the control values an operation has sent to the attenuator
AttenuatorCalls(e) ==
    LET Sets(c) == c.op = "attenuator.set" IN SelectSeq(e.calls, Sets)

Holds(b, requested) ==
    /\ requested >= power_ranges[b].min
    /\ requested <= power_ranges[b].max

\* C29 as stated: the laser power and the attenuator value a set_power ends
\* with depend on the bucket set and the requested power alone: two engines
\* with the same buckets and different active buckets end with the same
\* active bucket and the same attenuator value.
C29_ActiveBucketIrrelevant ==
    Calibrated =>
        \A requested \in RequestedPowers, b1, b2 \in DOMAIN analyzers :
            LET r1 == power_setter(WithActive(b1), requested)
                r2 == power_setter(WithActive(b2), requested)
            IN /\ r1.curr_laserpower = r2.curr_laserpower
               /\ AttenuatorCalls(r1) = AttenuatorCalls(r2)

\* C29 amended: the active bucket counts too.  An engine whose active bucket
\* holds the requested power keeps that bucket and sets the attenuator from
\* the model of that bucket, so two engines with the same buckets whose
\* different active buckets both hold the request end with different active
\* buckets.
C29_InRangeKeepsOwnBucket ==
    Calibrated =>
        \A requested \in RequestedPowers, b1, b2 \in DOMAIN analyzers :
            (b1 # b2 /\ Holds(b1, requested) /\ Holds(b2, requested)) =>
                LET r1 == power_setter(WithActive(b1), requested)
                    r2 == power_setter(WithActive(b2), requested)
                IN /\ r1.err = NoErr /\ r2.err = NoErr
                   /\ r1.curr_laserpower = b1
                   /\ r2.curr_laserpower = b2
                   /\ AttenuatorCalls(r1) = <<AttenuatorSet(analyzers[b1], requested)>>
                   /\ AttenuatorCalls(r2) = <<AttenuatorSet(analyzers[b2], requested)>>

\* a set_power has kept the active bucket for a request that a bucket of a
\* lower laser power holds too
C29_TwoBucketsHold ==
    /\ Calibrated
    /\ result.op = "power"
    /\ result.err = NoErr
    /\ Holds(curr_laserpower, result.arg.n)
    /\ \E b \in DOMAIN analyzers : b < curr_laserpower /\ Holds(b, result.arg.n)

====
